---- MODULE Spec2Model ----
(***************************************************************************)
(* A model of evol/population.py: Population and ContestPopulation.        *)
(*                                                                         *)
(* Individuals are objects on a heap (object identity matters: luck-based  *)
(* survival can put the same Individual at several positions of the        *)
(* individuals list, and evolve works on a deep copy).  User callables     *)
(* (eval_function, map/filter functions, parent_picker, combiner, the      *)
(* mutation function) are drawn from small families.                       *)
(***************************************************************************)
EXTENDS Integers, Sequences, FiniteSets, TLC

VARIABLES
    kind,                  \* "plain" (Population) or "contest" (ContestPopulation)
    maximize,              \* self.maximize
    eval_function,         \* self.eval_function (a name of one of the families below)
    matches_per_round,     \* ContestPopulation only
    individuals_per_match, \* ContestPopulation only
    individuals,           \* self.individuals: a sequence of object ids
    intended_size,         \* self.intended_size
    heap,                  \* object id -> Individual (chromosome, fitness, ...)
    orig,                  \* the caller's population while evolve() runs on its copy
    tourney,               \* history: the individuals list of the last tournament
    last,                  \* history: the recorded operation, its arguments and pre-state
    watch                  \* history: the operations a run may record

vars == <<kind, maximize, eval_function, matches_per_round, individuals_per_match,
          individuals, intended_size, heap, orig, tourney, last, watch>>

config == <<kind, maximize, eval_function, matches_per_round, individuals_per_match,
            watch>>

----------------------------------------------------------------------------
(* Bounds *)

MaxPop == 2

MaxChrom == 2

MaxRounds == 1

MaxPerMatch == 2

FracDen == 4

MaxObj == 2 * MaxPop

Ids == 1..MaxObj

Chromosomes == 1..MaxChrom

----------------------------------------------------------------------------
(* Optional values: None is the empty tuple, a present value v is <<v>>. *)

None == << >>

Some(v) == <<v>>

Val(o) == o[1]

Range(s) == {s[i] : i \in DOMAIN s}

RECURSIVE SumOver(_, _)
SumOver(S, f) ==
    IF S = {} THEN 0
    ELSE LET x == CHOOSE y \in S : TRUE
         IN  f[x] + SumOver(S \ {x}, f)

Min2(a, b) == IF a <= b THEN a ELSE b

----------------------------------------------------------------------------
(* History *)

\* last holds the record of one operation: its name, arguments, outcome and
\* pre-state.  Any one call of a watched operation may be the recorded one, and
\* the run ends with it: every watched operation is recorded from every
\* reachable state, and the states are not multiplied by their histories.
NoRecord == [op |-> "none"]

Running == last = NoRecord

----------------------------------------------------------------------------
(* Individual (evol.Individual) *)

\* Individual(chromosome=...): fitness starts as None.
\* basis is history: the chromosome the fitness was computed from.
NewIndividual(chromosome) ==
    [chromosome |-> chromosome, fitness |-> None, basis |-> None]

\* eval_function of a plain Population: (chromosome) -> score
PlainEvalFns == {"identity", "halve"}

EvalPlain(f, c) == IF f = "identity" THEN c ELSE c \div 2

\* Individual.evaluate(eval_function, lazy)
IndividualEvaluate(ind, f, lazy) ==
    IF ind.fitness = None \/ ~lazy
    THEN [ind EXCEPT !.fitness = Some(EvalPlain(f, ind.chromosome)),
                     !.basis = Some(ind.chromosome)]
    ELSE ind

\* functions handed to mutate: (chromosome) -> chromosome
MutateFns == {"next", "one"}

ApplyMutation(f, c) == IF f = "next" THEN (c % MaxChrom) + 1 ELSE 1

\* Individual.mutate(func): the chromosome is replaced, the fitness is kept.
IndividualMutate(ind, f) ==
    [ind EXCEPT !.chromosome = ApplyMutation(f, ind.chromosome)]

----------------------------------------------------------------------------
(* The heap *)

Free(h) == Ids \ DOMAIN h

\* the n smallest ids of a set, in increasing order
RECURSIVE FreshIds(_, _)
FreshIds(free, n) ==
    IF n = 0 THEN << >>
    ELSE LET m == CHOOSE x \in free : \A y \in free : x <= y
         IN  <<m>> \o FreshIds(free \ {m}, n - 1)

\* the distinct elements of a sequence, in the order of their first occurrence
RECURSIVE Dedup(_)
Dedup(seq) ==
    IF seq = << >> THEN << >>
    ELSE <<Head(seq)>> \o Dedup(SelectSeq(Tail(seq), LAMBDA x : x # Head(seq)))

\* Object ids are addresses: a state is kept up to their renaming.  The objects
\* the lists refer to are numbered in the order the lists reach them, and the
\* objects no list refers to are reclaimed.
Reached(inds, o) == Dedup((IF o = None THEN << >> ELSE Val(o).individuals) \o inds)

Renamed(order, seq) ==
    [i \in DOMAIN seq |->
        IF seq[i] \in Range(order) THEN CHOOSE j \in DOMAIN order : order[j] = seq[i]
        ELSE 0]

Compact(inds, h, o, t) ==
    LET order == Reached(inds, o)
    IN  [individuals |-> Renamed(order, inds),
         heap |-> [j \in DOMAIN order |-> h[order[j]]],
         orig |-> IF o = None THEN None
                  ELSE Some([individuals |-> Renamed(order, Val(o).individuals),
                             intended_size |-> Val(o).intended_size,
                             snapshot |->
                                [j \in Range(Renamed(order, Val(o).individuals))
                                    |-> Val(o).snapshot[order[j]]]]),
         tourney |-> Renamed(order, t)]

\* the step that ends an operation: its record is kept (and the run ends), or
\* the new state is kept, compacted
Commit(inds, h, o, t, rec) ==
    \E new \in {[individuals |-> inds, heap |-> h, orig |-> o, tourney |-> t]} :
    \E observed \in (IF rec.op \in watch THEN BOOLEAN ELSE {FALSE}) :
    \E kept \in {IF observed THEN new
                 ELSE Compact(new.individuals, new.heap, new.orig, new.tourney)} :
        /\ individuals' = kept.individuals
        /\ heap' = kept.heap
        /\ orig' = kept.orig
        /\ tourney' = kept.tourney
        /\ last' = IF observed THEN rec ELSE last

----------------------------------------------------------------------------
(* Population.__init__ / ContestPopulation.__init__ *)

SeqsUpTo(S, n) == UNION {[1..k -> S] : k \in 0..n}

ContestEvalFns == {"anchor", "best"}

Construct(chromosomes) ==
    /\ individuals = [i \in 1..Len(chromosomes) |-> i]
    /\ heap = [i \in 1..Len(chromosomes) |-> NewIndividual(chromosomes[i])]
    /\ intended_size = Len(chromosomes)
    /\ orig = None
    /\ tourney = << >>
    /\ last = NoRecord

InitPlain ==
    /\ kind = "plain"
    /\ eval_function \in PlainEvalFns
    /\ matches_per_round = 0
    /\ individuals_per_match = 0

InitContest ==
    /\ kind = "contest"
    /\ eval_function \in ContestEvalFns
    /\ matches_per_round \in 1..MaxRounds
    /\ individuals_per_match \in 1..MaxPerMatch


----------------------------------------------------------------------------
(* evaluate *)

\* Population.evaluate: every individual evaluates itself, in list order.
RECURSIVE PlainEvaluate(_, _, _, _)
PlainEvaluate(h, inds, f, lazy) ==
    IF inds = << >> THEN h
    ELSE PlainEvaluate([h EXCEPT ![Head(inds)] = IndividualEvaluate(@, f, lazy)],
                       Tail(inds), f, lazy)

\* variant: the rotation starts one element late
RotationLate(inds, offset, i) == inds[((offset + i + 1) % Len(inds)) + 1]

\* element i (from 0) of islice(cycle(inds), offset, None)
Rotation(inds, offset, i) == inds[((offset + i) % Len(inds)) + 1]

\* list(islice(zip(*generators), len(inds))): match i takes element i of each rotation
Matches(inds, offsets) ==
    [i \in 1..Len(inds) |->
        [k \in 1..Len(offsets) |-> Rotation(inds, offsets[k], i - 1)]]

\* the offsets of one round: 0 for the anchor, then the randint draws
Offsets(draws) == <<0>> \o draws

SeqMax(s) == CHOOSE m \in Range(s) : \A x \in Range(s) : x <= m

\* eval_function of a ContestPopulation: (*competitors) -> one score each
EvalContest(f, h, competitors) ==
    LET chroms == [k \in DOMAIN competitors |-> h[competitors[k]].chromosome]
    IN  [k \in DOMAIN competitors |->
            IF f = "anchor" THEN (IF k = 1 THEN 1 ELSE 0)
            ELSE (IF chroms[k] = SeqMax(chroms) THEN 1 ELSE 0)]

\* rounds[r][i] is match i of round r (a sequence of competitor ids)
Rounds(inds, draws) == [r \in DOMAIN draws |-> Matches(inds, Offsets(draws[r]))]

\* the slots <<round, match, competitor position>> of a tournament
Slots(rounds) ==
    UNION {UNION {{<<r, i, k>> : k \in DOMAIN rounds[r][i]} : i \in DOMAIN rounds[r]}
           : r \in DOMAIN rounds}

\* variant: the fitness is not set to 0 before the rounds
TournamentNoReset(h, inds, f, rounds) ==
    LET score == [s \in Slots(rounds) |-> EvalContest(f, h, rounds[s[1]][s[2]])[s[3]]]
        total(id) == SumOver({s \in Slots(rounds) : rounds[s[1]][s[2]][s[3]] = id}, score)
        old(id) == IF h[id].fitness = None THEN 0 ELSE Val(h[id].fitness)
    IN  [id \in DOMAIN h |->
            IF id \in Range(inds)
            THEN [h[id] EXCEPT !.fitness = Some(old(id) + total(id)),
                               !.basis = Some(h[id].chromosome)]
            ELSE h[id]]

\* individual.fitness = 0 for the listed individuals, then
\* competitor.fitness += score over every match of every round
Tournament(h, inds, f, rounds) ==
    LET score == [s \in Slots(rounds) |-> EvalContest(f, h, rounds[s[1]][s[2]])[s[3]]]
        total(id) == SumOver({s \in Slots(rounds) : rounds[s[1]][s[2]][s[3]] = id}, score)
    IN  [id \in DOMAIN h |->
            IF id \in Range(inds)
            THEN [h[id] EXCEPT !.fitness = Some(total(id)),
                               !.basis = Some(h[id].chromosome)]
            ELSE h[id]]

\* the randint draws one evaluate call may make: per round, one per non-anchor rotation
DrawSets(h, inds, lazy) ==
    IF /\ kind = "contest"
       /\ ~(lazy /\ \A id \in Range(inds) : h[id].fitness # None)
       /\ ~(Len(inds) = 0 /\ individuals_per_match >= 2)
    THEN [1..matches_per_round -> [1..(individuals_per_match - 1) -> 0..(Len(inds) - 1)]]
    ELSE {<< >>}

\* self.evaluate(lazy) by dynamic dispatch; the outcome is the new heap, whether the
\* call returned (ok), whether it returned early, and the matches played.
EvaluateOutcome(h, inds, lazy, draws) ==
    IF kind = "plain"
    THEN [ok |-> TRUE, heap |-> PlainEvaluate(h, inds, eval_function, lazy),
          early |-> FALSE, played |-> FALSE, rounds |-> << >>]
    ELSE IF lazy /\ \A id \in Range(inds) : h[id].fitness # None
    THEN [ok |-> TRUE, heap |-> h, early |-> TRUE, played |-> FALSE, rounds |-> << >>]
    ELSE IF Len(inds) = 0 /\ matches_per_round >= 1 /\ individuals_per_match >= 2
    THEN \* randint(0, -1) raises ValueError
         [ok |-> FALSE, heap |-> h, early |-> FALSE, played |-> FALSE, rounds |-> << >>]
    ELSE [ok |-> TRUE, heap |-> Tournament(h, inds, eval_function, Rounds(inds, draws)),
          early |-> FALSE, played |-> TRUE, rounds |-> Rounds(inds, draws)]

Evaluate ==
    /\ Running
    /\ \E lazy \in BOOLEAN :
      \E draws \in DrawSets(heap, individuals, lazy) :
        \E out \in {EvaluateOutcome(heap, individuals, lazy, draws)} :
            /\ Commit(individuals, out.heap, orig,
                      IF out.played THEN individuals ELSE tourney,
                      [op |-> "evaluate", ok |-> out.ok, lazy |-> lazy,
                       pre |-> individuals, preHeap |-> heap,
                       early |-> out.early, played |-> out.played,
                       rounds |-> out.rounds])
            /\ UNCHANGED <<config, intended_size>>

----------------------------------------------------------------------------
(* mutate, map, filter *)

\* Population.mutate: individual.mutate(func) for every entry of the list, in order
RECURSIVE MutateAll(_, _, _)
MutateAll(h, inds, f) ==
    IF inds = << >> THEN h
    ELSE MutateAll([h EXCEPT ![Head(inds)] = IndividualMutate(@, f)], Tail(inds), f)

Mutate ==
    /\ Running
    /\ \E f \in MutateFns :
        /\ Commit(individuals, MutateAll(heap, individuals, f), orig, tourney,
                  [op |-> "mutate", ok |-> TRUE, fn |-> f,
                   pre |-> individuals, preHeap |-> heap])
        /\ UNCHANGED <<config, intended_size>>

\* ContestPopulation.reset_fitness: fitness = None for every listed individual
ResetFitness(h, inds) ==
    [id \in DOMAIN h |-> IF id \in Range(inds) THEN [h[id] EXCEPT !.fitness = None]
                         ELSE h[id]]

\* variant: the overrides do not call reset_fitness
AfterStructuralBase(h, inds) == h

\* what the overrides of ContestPopulation add after the base call
AfterStructural(h, inds) == IF kind = "contest" THEN ResetFitness(h, inds) ELSE h

\* functions handed to map: (Individual) -> Individual.  "same" returns its
\* argument, "fresh" a new Individual with the same chromosome.
MapFns == {"same", "fresh"}

Map ==
    /\ Running
    /\ \E f \in MapFns :
        /\ f = "fresh" => Cardinality(Free(heap)) >= Len(individuals)
        /\ LET ids == FreshIds(Free(heap), Len(individuals))
               inds == IF f = "same" THEN individuals ELSE ids
               h1 == IF f = "same" THEN heap
                     ELSE [id \in (DOMAIN heap) \cup Range(ids) |->
                             IF id \in DOMAIN heap THEN heap[id]
                             ELSE LET i == CHOOSE j \in DOMAIN ids : ids[j] = id
                                  IN  NewIndividual(heap[individuals[i]].chromosome)]
           IN  Commit(inds, AfterStructural(h1, inds), orig, tourney,
                      [op |-> "map", ok |-> TRUE, fn |-> f,
                       pre |-> individuals, preHeap |-> heap])
        /\ UNCHANGED <<config, intended_size>>

\* functions handed to filter: keep the individuals whose chromosome exceeds c
FilterFns == 0..MaxChrom

Keep(h, inds, c) == SelectSeq(inds, LAMBDA id : h[id].chromosome > c)

Filter ==
    /\ Running
    /\ \E c \in FilterFns :
        LET inds == Keep(heap, individuals, c)
        IN  /\ Commit(inds, AfterStructural(heap, inds), orig, tourney,
                      [op |-> "filter", ok |-> TRUE, fn |-> c,
                       pre |-> individuals, preHeap |-> heap])
            /\ UNCHANGED <<config, intended_size>>

----------------------------------------------------------------------------
(* survive *)

\* Python's round() of the float num/den (exact here): half to even
Round(num, den) ==
    LET fl == num \div den
        r2 == 2 * (num % den)
    IN  IF r2 < den THEN fl
        ELSE IF r2 > den THEN fl + 1
        ELSE IF fl % 2 = 0 THEN fl ELSE fl + 1

\* fraction is None or Some(q), standing for the float q / FracDen; n is None or Some(int)
FractionArgs == {None} \cup {Some(q) : q \in (-1)..(FracDen + 1)}

NArgs == {None} \cup {Some(k) : k \in (-1)..(MaxPop + 1)}

\* lines 86-93; None when the call raises for want of both arguments
ResultingSize(fraction, n, size) ==
    IF fraction = None
    THEN (IF n = None THEN None ELSE Some(Val(n)))
    ELSE IF n = None THEN Some(Round(Val(fraction) * size, FracDen))
    ELSE Some(Min2(Round(Val(fraction) * size, FracDen), Val(n)))

\* seq[:k] of Python, k of either sign
Slice(seq, k) ==
    IF k >= 0 THEN SubSeq(seq, 1, Min2(k, Len(seq)))
    ELSE SubSeq(seq, 1, IF Len(seq) + k > 0 THEN Len(seq) + k ELSE 0)

\* sorted(inds, key=fitness, reverse=rev): stable, also under reverse
Before(h, inds, rev, j, i) ==
    LET fj == Val(h[inds[j]].fitness)
        fi == Val(h[inds[i]].fitness)
    IN  \/ (IF rev THEN fj > fi ELSE fj < fi)
        \/ (fj = fi /\ j < i)

\* variant: the list is not sorted
Unsorted(h, inds, rev) == inds

Sorted(h, inds, rev) ==
    LET rank(i) == Cardinality({j \in DOMAIN inds : Before(h, inds, rev, j, i)}) + 1
    IN  [r \in DOMAIN inds |-> inds[CHOOSE i \in DOMAIN inds : rank(i) = r]]

\* variant: reverse=not self.maximize
TruncateFlipped(h, inds, rev, k) == Slice(Sorted(h, inds, ~rev), k)

\* lines 103-104
Truncate(h, inds, rev, k) == Slice(Sorted(h, inds, rev), k)

\* random.choices(inds, k=k, weights=fitness): the draws it can return, as index
\* sequences; only entries of positive weight are ever drawn.  The empty set
\* stands for its ValueError (total of weights not greater than zero).
ChoiceDraws(h, inds, k) ==
    LET w == [i \in DOMAIN inds |-> Val(h[inds[i]].fitness)]
    IN  IF SumOver(DOMAIN inds, w) <= 0 THEN {}
        ELSE [1..(IF k > 0 THEN k ELSE 0) -> {i \in DOMAIN inds : w[i] > 0}]

\* the lists a returning call may leave: the luck draws, or the truncated ranking
Survivors(h, inds, k, luck) ==
    IF luck THEN {[j \in DOMAIN p |-> inds[p[j]]] : p \in ChoiceDraws(h, inds, k)}
    ELSE {Truncate(h, inds, maximize, k)}

\* the exception a call raises ("none": it returns), given the outcome of its
\* self.evaluate(lazy=True)
SurviveError(size, out, inds, luck) ==
    IF size = None THEN "ValueError"
    ELSE IF ~out.ok THEN "ValueError"
    ELSE IF Val(size) = 0 THEN "RuntimeError"
    ELSE IF Val(size) > Len(inds) THEN "ValueError"
    ELSE IF luck /\ ChoiceDraws(out.heap, inds, Val(size)) = {} THEN "ValueError"
    ELSE "none"

\* lines 95-105 and the override at 166-169, given the outcome of line 94's
\* self.evaluate(lazy=True); a call that gives neither argument raises before it
Survive(fraction, n, luck, out) ==
    LET size == ResultingSize(fraction, n, Len(individuals))
        h == IF size = None THEN heap ELSE out.heap
        err == SurviveError(size, out, individuals, luck)
        t == IF size # None /\ out.played THEN individuals ELSE tourney
        rec == [op |-> "survive", ok |-> err = "none", error |-> err,
                fraction |-> fraction, n |-> n, luck |-> luck,
                pre |-> individuals, preHeap |-> heap, ranked |-> h]
    IN  /\ IF err # "none"
           THEN Commit(individuals, h, orig, t, rec)
           ELSE \E inds \in Survivors(h, individuals, Val(size), luck) :
                    Commit(inds, AfterStructural(h, inds), orig, t, rec)
        /\ UNCHANGED <<config, intended_size>>

\* a call with any arguments
SurviveCall ==
    /\ Running
    /\ \E draws \in DrawSets(heap, individuals, TRUE) :
         \E out \in {EvaluateOutcome(heap, individuals, TRUE, draws)} :
             \/ \E fraction \in FractionArgs, n \in NArgs :
                    Survive(fraction, n, FALSE, out)
             \/ \E n \in NArgs : Survive(None, n, TRUE, out)

\* a call that gives n alone
SurviveN ==
    /\ Running
    /\ \E draws \in DrawSets(heap, individuals, TRUE) :
         \E out \in {EvaluateOutcome(heap, individuals, TRUE, draws)} :
             \E n \in NArgs, luck \in BOOLEAN : Survive(None, n, luck, out)

\* a call that gives n alone and leaves luck at its default
SurviveTop ==
    /\ Running
    /\ \E draws \in DrawSets(heap, individuals, TRUE) :
         \E out \in {EvaluateOutcome(heap, individuals, TRUE, draws)} :
             \E n \in NArgs : Survive(None, n, FALSE, out)

----------------------------------------------------------------------------
(* breed *)

\* population_size: None, or an int (0 is falsy and so ignored)
PopulationSizeArgs == {None} \cup {Some(k) : k \in 0..MaxPop}

\* line 114-115: the size breed fills up to
BreedTarget(population_size, intended) ==
    IF population_size # None /\ Val(population_size) # 0
    THEN Val(population_size) ELSE intended

\* variant: the range stops one short
BreedCountShort(size, target) == IF target > size + 1 THEN target - size - 1 ELSE 0

\* range(len(self.individuals), self.intended_size): the number of offspring
BreedCount(size, target) == IF target > size THEN target - size ELSE 0

\* parent_picker family: it returns the Individual at one position of the list it
\* is offered (not a sequence), or a list of the Individuals at two positions
ParentPicks(n) ==
    {[seq |-> FALSE, at |-> <<i>>] : i \in 1..n} \cup
    {[seq |-> TRUE, at |-> <<i, j>>] : i \in 1..n, j \in 1..n}

\* lines 119-121: the picker's result, wrapped in a list unless it has a length
Parents(offered, pick) ==
    LET result == IF pick.seq THEN [k \in DOMAIN pick.at |-> offered[pick.at[k]]]
                  ELSE offered[pick.at[1]]
    IN  IF pick.seq THEN result ELSE <<result>>

\* combiner family: (*chromosomes) -> chromosome
CombinerFns == {"first", "last"}

Combine(f, chromosomes) ==
    IF f = "first" THEN chromosomes[1] ELSE chromosomes[Len(chromosomes)]

\* lines 122-123 for one offspring: the chromosome the combiner returns
Offspring(h, offered, pick, f) ==
    LET parents == Parents(offered, pick)
    IN  Combine(f, [k \in DOMAIN parents |-> h[parents[k]].chromosome])

\* lines 117-123: the list and heap after appending one Individual per chromosome
Append_(h, inds, chromosomes) ==
    LET ids == FreshIds(Free(h), Len(chromosomes))
    IN  [individuals |-> inds \o ids,
         heap |-> [id \in (DOMAIN h) \cup Range(ids) |->
                     IF id \in DOMAIN h THEN h[id]
                     ELSE NewIndividual(chromosomes[CHOOSE j \in DOMAIN ids : ids[j] = id])]]

Breed ==
    /\ Running
    /\ \E population_size \in PopulationSizeArgs, f \in CombinerFns :
        LET target == BreedTarget(population_size, intended_size)
            size_before_breed == Len(individuals)
            count == BreedCount(size_before_breed, target)
            snapshot == SubSeq(individuals, 1, size_before_breed)
            rec(ok, combined) ==
                [op |-> "breed", ok |-> ok, population_size |-> population_size,
                 target |-> target, intended_before |-> intended_size,
                 combined |-> combined, pre |-> individuals, preHeap |-> heap]
        IN  /\ count <= Cardinality(Free(heap))
            /\ intended_size' = target
            /\ IF count > 0 /\ size_before_breed = 0
               THEN \* the picker has nothing to pick from and raises
                    Commit(individuals, heap, orig, tourney, rec(FALSE, << >>))
               ELSE \E picks \in [1..count -> ParentPicks(size_before_breed)] :
                    LET combined == [j \in 1..count |->
                                        Offspring(heap, snapshot, picks[j], f)]
                        new == Append_(heap, individuals, combined)
                    IN  Commit(new.individuals, new.heap, orig, tourney,
                               rec(TRUE, combined))
            /\ UNCHANGED config

----------------------------------------------------------------------------
(* evolve *)

\* variant: copy(self), a new Population over the same Individuals
EvolveCopyShallow(h, inds) ==
    [individuals |-> inds, heap |-> h, image |-> [id \in Range(inds) |-> id]]

\* deepcopy(self): every Individual of the list is copied once (aliases stay
\* aliases), into a new list
EvolveCopy(h, inds) ==
    LET olds == FreshIds(Range(inds), Cardinality(Range(inds)))
        news == FreshIds(Free(h), Len(olds))
        copy(id) == news[CHOOSE j \in DOMAIN olds : olds[j] = id]
    IN  [individuals |-> [i \in DOMAIN inds |-> copy(inds[i])],
         heap |-> [id \in (DOMAIN h) \cup Range(news) |->
                     IF id \in DOMAIN h THEN h[id]
                     ELSE h[olds[CHOOSE j \in DOMAIN news : news[j] = id]]],
         image |-> [id \in Range(inds) |-> copy(id)]]

\* evolve, line 48: result = deepcopy(self); the steps then act on result
EvolveBegin ==
    /\ Running
    /\ orig = None
    /\ Cardinality(Free(heap)) >= Cardinality(Range(individuals))
    /\ LET result == EvolveCopy(heap, individuals)
       IN  Commit(result.individuals, result.heap,
                  Some([individuals |-> individuals, intended_size |-> intended_size,
                        snapshot |-> [id \in Range(individuals) |-> heap[id]]]),
                  [i \in DOMAIN tourney |->
                      IF tourney[i] \in DOMAIN result.image
                      THEN result.image[tourney[i]] ELSE 0],
                  [op |-> "evolve_begin"])
    /\ UNCHANGED <<config, intended_size>>

\* evolve, line 52: return result; the caller holds the original and the result.
\* The return is always recorded: a run follows one call of evolve.
EvolveReturn ==
    /\ Running
    /\ orig # None
    /\ last' = [op |-> "evolve", ok |-> TRUE, original |-> Val(orig),
                originalHeap |-> [id \in Range(Val(orig).individuals) |-> heap[id]]]
    /\ UNCHANGED <<config, individuals, intended_size, heap, orig, tourney>>

----------------------------------------------------------------------------

(* Specifications *)

Ops == {"evaluate", "mutate", "map", "filter", "survive", "breed", "evolve"}

InitAny(kinds, watched) ==
    /\ ("plain" \in kinds /\ InitPlain) \/ ("contest" \in kinds /\ InitContest)
    /\ watch = watched
    /\ maximize \in BOOLEAN
    /\ \E chromosomes \in SeqsUpTo(Chromosomes, MaxPop) : Construct(chromosomes)

\* every operation, on a Population or a ContestPopulation
Next ==
    \/ Evaluate
    \/ Mutate
    \/ Map
    \/ Filter
    \/ SurviveN
    \/ Breed

Init == InitAny({"plain", "contest"}, Ops)

Spec == Init /\ [][Next]_vars

\* survival of a plain Population, with every combination of fraction and n
NextSurvive ==
    \/ Evaluate
    \/ SurviveCall

SpecSurvive == InitAny({"plain"}, {"survive"}) /\ [][NextSurvive]_vars

\* Population(chromosomes=[1,2,3,4], eval_function=lambda c: c, maximize=True)
InitExample ==
    /\ InitPlain
    /\ eval_function = "identity"
    /\ watch = {"survive"}
    /\ maximize = TRUE
    /\ Construct(<<1, 2, 3, 4>>)

SpecExample == InitExample /\ [][NextSurvive]_vars

\* breeding, after evaluation and filtering
NextBreed ==
    \/ Evaluate
    \/ Filter
    \/ Breed

SpecBreed == InitAny({"plain", "contest"}, {"breed"}) /\ [][NextBreed]_vars

\* the operations ContestPopulation overrides
NextContest ==
    \/ Evaluate
    \/ Map
    \/ Filter
    \/ SurviveN

SpecContest == InitAny({"contest"}, {"map", "filter", "survive"}) /\ [][NextContest]_vars

\* tournaments, also over lists in which luck put an Individual twice
NextTournament ==
    \/ Evaluate
    \/ SurviveN

SpecTournament == InitAny({"contest"}, {"evaluate"}) /\ [][NextTournament]_vars

\* one call of evolve on a population as constructed or evaluated; the other
\* operations are the steps of the evolution, which mutation tells apart
InitEvolve ==
    /\ InitPlain \/ InitContest
    /\ watch = {"evolve"}
    /\ maximize = TRUE
    /\ \E chromosomes \in SeqsUpTo({1}, MaxPop) : Construct(chromosomes)

NextEvolve ==
    \/ EvolveBegin
    \/ EvolveReturn
    \/ Evaluate
    \/ orig # None /\ Mutate
    \/ orig # None /\ Map
    \/ orig # None /\ Filter
    \/ orig # None /\ SurviveTop
    \/ orig # None /\ Breed

SpecEvolve == InitEvolve /\ [][NextEvolve]_vars

----------------------------------------------------------------------------
(* Properties *)

\* the number of positions of a sequence that hold x
Count(seq, x) == Cardinality({i \in DOMAIN seq : seq[i] = x})

\* the chromosomes of a list of individuals
ChromosomesOf(h, inds) == [i \in DOMAIN inds |-> h[inds[i]].chromosome]

\* the recorded operation returned
Returned(op) == last.op = op /\ last.ok

(* survive *)

\* the size a call asks for: n, round(fraction * S), or the smaller of the two
RequestedSize ==
    LET S == Len(last.pre)
        byFraction == Round(Val(last.fraction) * S, FracDen)
    IN  IF last.fraction = None THEN Val(last.n)
        ELSE IF last.n = None THEN byFraction
        ELSE Min2(byFraction, Val(last.n))

\* C1: a call of survive that gives neither fraction nor n raises; one that gives
\* at least one of them raises when the requested size is 0 or exceeds the size S
\* before the call, and otherwise either raises or returns with len(population)
\* equal to the requested size, with 0 < len(population) <= S.
SurvivalSizeLaw ==
    last.op = "survive" =>
        IF last.fraction = None /\ last.n = None THEN ~last.ok
        ELSE /\ RequestedSize = 0 => ~last.ok
             /\ RequestedSize > Len(last.pre) => ~last.ok
             /\ last.ok => /\ Len(individuals) = RequestedSize
                           /\ 0 < Len(individuals)
                           /\ Len(individuals) <= Len(last.pre)

\* the fitness survive ranked an individual by
RankedFitness(id) == Val(last.ranked[id].fitness)

\* the survivors are at least as good as every individual that did not survive
SurvivorsAreBest ==
    \A s \in Range(individuals), d \in Range(last.pre) \ Range(individuals) :
        IF maximize THEN RankedFitness(s) >= RankedFitness(d)
        ELSE RankedFitness(s) <= RankedFitness(d)

\* C8 as claimed: after a returning survive with luck=False the survivors are at
\* least as fit (by maximize) as every individual that did not survive, and they
\* are a duplicate-free subset of the original individuals.
TruncationDuplicateFree ==
    (Returned("survive") /\ ~last.luck) =>
        /\ SurvivorsAreBest
        /\ Range(individuals) \subseteq Range(last.pre)
        /\ \A i, j \in DOMAIN individuals : i # j => individuals[i] # individuals[j]

\* C8: after a returning survive with luck=False the survivors are at least as
\* fit (by maximize) as every individual that did not survive, and no individual
\* occurs more often among the survivors than in the original list.
TruncationCorrectness ==
    (Returned("survive") /\ ~last.luck) =>
        /\ SurvivorsAreBest
        /\ \A id \in Range(individuals) : Count(individuals, id) <= Count(last.pre, id)

\* a truncation that dropped a strictly worse individual
TruncationWitness ==
    /\ Returned("survive") /\ ~last.luck
    /\ \E s \in Range(individuals), d \in Range(last.pre) \ Range(individuals) :
           RankedFitness(s) # RankedFitness(d)

\* the call survive(n=2) on the population as constructed from [1, 2, 3, 4]
ExampleCall ==
    /\ Returned("survive")
    /\ last.fraction = None /\ last.n = Some(2) /\ ~last.luck
    /\ last.pre = <<1, 2, 3, 4>>
    /\ ChromosomesOf(last.preHeap, last.pre) = <<1, 2, 3, 4>>

\* C2 as claimed: the example leaves the chromosomes 3 and 4, 3 before 4.
ExampleKeeps3Then4 == ExampleCall => ChromosomesOf(heap, individuals) = <<3, 4>>

\* C2: the example leaves exactly two individuals, the chromosome 4 before the
\* chromosome 3 (the ranking is descending under maximize=True).
ExampleKeeps4Then3 == ExampleCall => ChromosomesOf(heap, individuals) = <<4, 3>>

ExampleWitness == ExampleCall /\ Len(individuals) = 2

(* ContestPopulation.evaluate *)

\* the recorded evaluate ran a tournament
Played == Returned("evaluate") /\ last.played

\* the matches <<round, match>> of the recorded tournament
MatchesPlayed == {<<r, i>> : r \in DOMAIN last.rounds, i \in DOMAIN individuals}

Competitors(m) == last.rounds[m[1]][m[2]]

\* eval_function returns (1, 0) for every match of two
AccountingCase ==
    /\ Played
    /\ individuals_per_match = 2 /\ matches_per_round = 1
    /\ eval_function = "anchor"

\* C3 as claimed: with individuals_per_match = 2, matches_per_round = 1 and scores
\* (1, 0), every individual's fitness after evaluate is the number of matches it
\* took part in, and at least 1.
FitnessCountsParticipation ==
    AccountingCase =>
        \A id \in Range(individuals) :
            /\ heap[id].fitness =
                   Some(Cardinality({m \in MatchesPlayed : id \in Range(Competitors(m))}))
            /\ Val(heap[id].fitness) >= 1

\* C3: with individuals_per_match = 2, matches_per_round = 1 and scores (1, 0),
\* every individual's fitness after evaluate is the number of matches in which it
\* was the first (anchor) competitor, which is at least 1, for every offset drawn.
FitnessCountsAnchorMatches ==
    AccountingCase =>
        \A id \in Range(individuals) :
            /\ heap[id].fitness =
                   Some(Cardinality({m \in MatchesPlayed : Competitors(m)[1] = id}))
            /\ Val(heap[id].fitness) >= 1

\* an individual that took part in more matches than it was anchor of
AccountingWitness ==
    /\ AccountingCase
    /\ \E id \in Range(individuals) :
           Cardinality({m \in MatchesPlayed : id \in Range(Competitors(m))}) >
           Cardinality({m \in MatchesPlayed : Competitors(m)[1] = id})

\* every round has N matches of individuals_per_match competitors, match i led by
\* individuals[i] and filled from rotations of the list
RoundShape ==
    LET N == Len(individuals)
    IN  /\ Len(last.rounds) = matches_per_round
        /\ \A r \in DOMAIN last.rounds :
             /\ Len(last.rounds[r]) = N
             /\ \A i \in 1..N :
                  /\ Len(last.rounds[r][i]) = individuals_per_match
                  /\ last.rounds[r][i][1] = individuals[i]
             /\ \A k \in 1..individuals_per_match :
                  \/ N = 0
                  \/ \E offset \in 0..(N - 1) :
                         \A i \in 1..N :
                             last.rounds[r][i][k] = individuals[((offset + i - 1) % N) + 1]
        /\ Cardinality(MatchesPlayed) = matches_per_round * N

BreedCase == Returned("breed") /\ Len(last.pre) < last.target

SizeWithinIntended == Returned("breed") => Len(individuals) <= intended_size

\* C4: an individual of the population has a fitness only if it was computed from
\* its current chromosome and, for a ContestPopulation, in a tournament over the
\* current members of the population.
FitnessValid ==
    \A id \in Range(individuals) :
        heap[id].fitness # None =>
            /\ heap[id].basis = Some(heap[id].chromosome)
            /\ kind = "contest" => Range(tourney) = Range(individuals)

(* ContestPopulation.map, filter, survive *)

\* C6: after a returning map, filter or survive (with or without luck) of a
\* ContestPopulation, every individual of the population has fitness None.
ContestFitnessInvalidated ==
    (kind = "contest" /\ last.op \in {"map", "filter", "survive"} /\ last.ok) =>
        \A id \in Range(individuals) : heap[id].fitness = None

\* a survive by luck that kept an individual which had a fitness before the call
ContestInvalidationWitness ==
    /\ kind = "contest" /\ Returned("survive") /\ last.luck
    /\ \E id \in Range(individuals) :
           id \in DOMAIN last.preHeap /\ last.preHeap[id].fitness # None

(* evolve *)

\* C7: while evolve runs its steps, and when it returns, every Individual of the
\* original population has the chromosome and fitness it had at the call, and
\* the population the steps act on shares no Individual with the original.
EvolvePurity ==
    orig # None =>
        /\ \A id \in Range(Val(orig).individuals) : heap[id] = Val(orig).snapshot[id]
        /\ Range(individuals) \cap Range(Val(orig).individuals) = {}
        /\ last.op = "evolve" =>
             /\ last.original = Val(orig)
             /\ last.originalHeap = Val(orig).snapshot

\* an evolve that returned a population evaluated and grown beyond the original
EvolveWitness ==
    /\ Returned("evolve")
    /\ Len(last.original.individuals) >= 1
    /\ Len(individuals) > Len(last.original.individuals)
    /\ \E id \in Range(individuals) : heap[id].fitness # None
    /\ \A id \in Range(last.original.individuals) : heap[id].fitness = None

====
